---- MODULE Spec2Model ----
(***************************************************************************)
(* hp-admin-crypto: the signature-checking sidecar of src/server/src/main.rs *)
(* Strings and header values are sequences of bytes (0..255); every        *)
(* conversion the handler performs (HeaderValue::to_str, String::from_utf8, *)
(* to_lowercase, the JSON serialisation, base64 decoding,                  *)
(* Signature::from_bytes) is computed on those bytes.                      *)
(***************************************************************************)
EXTENDS Integers, Sequences, FiniteSets, TLC

\* ------------------------------------------------------------ byte strings

\* Option<&HeaderValue>::None of HeaderMap::get (no byte string holds -1).
None == <<-1>>

\* http::header::HeaderValue: the bytes visible ASCII or tab.
is_visible_ascii(b) == (b >= 32 /\ b < 127) \/ b = 9

\* HeaderValue::to_str succeeds iff every byte is visible ASCII.
to_str_ok(v) == \A i \in 1..Len(v) : is_visible_ascii(v[i])

\* The bytes hyper's parser lets through into a HeaderValue: visible ASCII,
\* tab and obs-text (0x80..0xFF).
is_header_value(v) ==
    \A i \in 1..Len(v) : (v[i] >= 32 /\ v[i] <= 255 /\ v[i] # 127) \/ v[i] = 9

IsCont(s, i) == i <= Len(s) /\ s[i] >= 128 /\ s[i] <= 191

RECURSIVE Utf8From(_, _)
\* core::str::from_utf8: the bytes from position i on are well-formed UTF-8.
Utf8From(s, i) ==
    IF i > Len(s) THEN TRUE
    ELSE LET b == s[i] IN
         IF b < 128 THEN Utf8From(s, i + 1)
         ELSE IF b >= 194 /\ b <= 223
              THEN IsCont(s, i + 1) /\ Utf8From(s, i + 2)
         ELSE IF b >= 224 /\ b <= 239
              THEN /\ IsCont(s, i + 1)
                   /\ (b = 224 => s[i + 1] >= 160)
                   /\ (b = 237 => s[i + 1] <= 159)
                   /\ IsCont(s, i + 2)
                   /\ Utf8From(s, i + 3)
         ELSE IF b >= 240 /\ b <= 244
              THEN /\ IsCont(s, i + 1)
                   /\ (b = 240 => s[i + 1] >= 144)
                   /\ (b = 244 => s[i + 1] <= 143)
                   /\ IsCont(s, i + 2)
                   /\ IsCont(s, i + 3)
                   /\ Utf8From(s, i + 4)
         ELSE FALSE

\* String::from_utf8(body.to_vec()) is Ok.
from_utf8_ok(bytes) == Utf8From(bytes, 1)

LowerByte(b) == IF b >= 65 /\ b <= 90 THEN b + 32 ELSE b

\* str::to_lowercase on a method token (hyper's Method is ASCII).
to_lowercase(s) == [i \in 1..Len(s) |-> LowerByte(s[i])]

HexDigit(n) == IF n < 10 THEN 48 + n ELSE 87 + n

\* serde_json's string escaping of one byte of a str.
EscapeByte(b) ==
    IF b = 34 THEN <<92, 34>>
    ELSE IF b = 92 THEN <<92, 92>>
    ELSE IF b = 8 THEN <<92, 98>>
    ELSE IF b = 9 THEN <<92, 116>>
    ELSE IF b = 10 THEN <<92, 110>>
    ELSE IF b = 12 THEN <<92, 102>>
    ELSE IF b = 13 THEN <<92, 114>>
    ELSE IF b < 32 THEN <<92, 117, 48, 48, HexDigit(b \div 16), HexDigit(b % 16)>>
    ELSE <<b>>

RECURSIVE EscapeFrom(_, _)
\* The escaped bytes of s from position i on.
EscapeFrom(s, i) ==
    IF i > Len(s) THEN <<>> ELSE EscapeByte(s[i]) \o EscapeFrom(s, i + 1)

\* serde_json::to_string of a JSON string value, without the quotes.
json_string(s) == EscapeFrom(s, 1)

\* a payload built without lower-casing the verb
create_payload_keep_case(method, uri, body_string) ==
       <<123, 34, 109, 101, 116, 104, 111, 100, 34, 58, 34>> \o json_string(method)
    \o <<34, 44, 34, 117, 114, 105, 34, 58, 34>> \o json_string(uri)
    \o <<34, 44, 34, 98, 111, 100, 121, 34, 58, 34>> \o json_string(body_string)
    \o <<34, 125>>

\* create_payload: {"method":<lower-cased method>,"uri":<uri>,"body":<body>}
create_payload(method, uri, body_string) ==
       <<123, 34, 109, 101, 116, 104, 111, 100, 34, 58, 34>>
    \o json_string(to_lowercase(method))
    \o <<34, 44, 34, 117, 114, 105, 34, 58, 34>> \o json_string(uri)
    \o <<34, 44, 34, 98, 111, 100, 121, 34, 58, 34>> \o json_string(body_string)
    \o <<34, 125>>

\* ----------------------------------------------------------------- base64

\* The value of a symbol of the standard alphabet, -1 for any other byte.
B64Val(c) ==
    IF c >= 65 /\ c <= 90 THEN c - 65
    ELSE IF c >= 97 /\ c <= 122 THEN c - 71
    ELSE IF c >= 48 /\ c <= 57 THEN c + 4
    ELSE IF c = 43 THEN 62
    ELSE IF c = 47 THEN 63
    ELSE -1

B64Char(v) ==
    IF v < 26 THEN v + 65
    ELSE IF v < 52 THEN v + 71
    ELSE IF v < 62 THEN v - 4
    ELSE IF v = 62 THEN 43
    ELSE 47

ByteAt(s, i) == IF i <= Len(s) THEN s[i] ELSE 0

\* The signer's transport encoding: standard base64 without padding.
encode_no_pad(bytes) ==
    LET n == Len(bytes)
        c == (n \div 3) * 4 + (IF n % 3 = 1 THEN 2 ELSE IF n % 3 = 2 THEN 3 ELSE 0)
    IN  [k \in 1..c |->
            LET g  == (k - 1) \div 4
                r  == (k - 1) % 4
                b0 == ByteAt(bytes, 3 * g + 1)
                b1 == ByteAt(bytes, 3 * g + 2)
                b2 == ByteAt(bytes, 3 * g + 3)
            IN  B64Char(IF r = 0 THEN b0 \div 4
                        ELSE IF r = 1 THEN (b0 % 4) * 16 + b1 \div 16
                        ELSE IF r = 2 THEN (b1 % 16) * 4 + b2 \div 64
                        ELSE b2 % 64)]

RECURSIVE TrailingPads(_, _)
\* The number of '=' bytes that end s[1..n].
TrailingPads(s, n) ==
    IF n >= 1 /\ s[n] = 61 THEN 1 + TrailingPads(s, n - 1) ELSE 0

\* The bytes that m valid symbols decode to.
DecodeSymbols(s, m) ==
    LET l == (m \div 4) * 3 + (IF m % 4 = 2 THEN 1 ELSE IF m % 4 = 3 THEN 2 ELSE 0)
    IN  [j \in 1..l |->
            LET q  == (j - 1) \div 3
                r  == (j - 1) % 3
                v0 == B64Val(s[4 * q + 1])
                v1 == B64Val(s[4 * q + 2])
                v2 == IF 4 * q + 3 <= m THEN B64Val(s[4 * q + 3]) ELSE 0
                v3 == IF 4 * q + 4 <= m THEN B64Val(s[4 * q + 4]) ELSE 0
            IN  IF r = 0 THEN v0 * 4 + v1 \div 16
                ELSE IF r = 1 THEN (v1 % 16) * 16 + v2 \div 4
                ELSE (v2 % 4) * 64 + v3]

\* base64::decode_config(input, STANDARD_NO_PAD): Err on a byte outside the
\* alphabet, on misplaced padding, on a dangling symbol and on non-zero
\* trailing bits; trailing padding of the last quad is tolerated.
decode_config(input) ==
    LET n    == Len(input)
        pads == TrailingPads(input, n)
        m    == n - pads
        last == IF m >= 1 THEN B64Val(input[m]) ELSE 0
    IN  IF \E i \in 1..m : B64Val(input[i]) < 0 THEN [ok |-> FALSE, v |-> <<>>]
        ELSE IF pads > 0 /\ (m % 4 < 2 \/ pads > 4 - (m % 4))
             THEN [ok |-> FALSE, v |-> <<>>]
        ELSE IF m % 4 = 1 THEN [ok |-> FALSE, v |-> <<>>]
        ELSE IF (m % 4 = 2 /\ last % 16 # 0) \/ (m % 4 = 3 /\ last % 4 # 0)
             THEN [ok |-> FALSE, v |-> <<>>]
        ELSE [ok |-> TRUE, v |-> DecodeSymbols(input, m)]

\* ------------------------------------------------------------- signatures

\* ed25519_dalek::SIGNATURE_LENGTH, the size Signature::from_bytes insists on.
SIGNATURE_LENGTH == 64

\* The longest message the model's signer signs.
MsgCapacity == SIGNATURE_LENGTH - 3

\* The signature of msg under the private half of key: an idealised
\* deterministic scheme whose signature names the key and the message, so
\* that it verifies under that key for that message and for nothing else.
Sign(key, msg) ==
    [i \in 1..SIGNATURE_LENGTH |->
        IF i = 1 THEN key
        ELSE IF i = 2 THEN Len(msg)
        ELSE IF i - 2 <= Len(msg) THEN msg[i - 2]
        ELSE 0]

\* Signature::from_bytes is Ok.
from_bytes_ok(bytes) == Len(bytes) = SIGNATURE_LENGTH

\* PublicKey::verify(msg, sig) is Ok.
verify(public_key, msg, sig) ==
    Len(msg) <= MsgCapacity /\ sig = Sign(public_key, msg)

\* ------------------------------------------------------------------ inputs

\* The most requests a behaviour holds.
MaxReqs == 2

\* The administrator key pairs, each named by one byte.
Keys == {1, 2}

\* The methods of a first request: "POST", "Delete"
FreshMethods == {<<80, 79, 83, 84>>, <<68, 101, 108, 101, 116, 101>>}

\* The request targets: "/", "/?q", "/x"
Targets == {<<47>>, <<47, 63, 113>>, <<47, 120>>}

\* The x-original-uri values: "/admin/reset", "/x" followed by the text that
\* closes a JSON string and opens the body field, and "/é" (obs-text bytes).
Uris == {<<47, 97, 100, 109, 105, 110, 47, 114, 101, 115, 101, 116>>,
         <<47, 120, 34, 44, 34, 98, 111, 100, 121, 34, 58, 34>>,
         <<47, 195, 169>>}

\* The bodies: "", {"x":1}, text that closes a JSON string and opens another
\* body field, and the byte 0xFF (not UTF-8).
Bodies == {<<>>,
           <<123, 34, 120, 34, 58, 49, 125>>,
           <<34, 44, 34, 98, 111, 100, 121, 34, 58, 34>>,
           <<255>>}

\* How the signature header was made from the signature: its unpadded
\* base64 ("nopad"), that with canonical padding appended, the base64 of the
\* signature less its last byte, the base64 with a byte outside the alphabet,
\* with an obs-text byte, and the base64 of 64 bytes that are no signature.
Encodings == {"nopad", "padded", "short", "badchar", "obstext", "forged"}

\* The URI the signer signs when the request carries no usable one: "/admin/reset"
DefaultUri == <<47, 97, 100, 109, 105, 110, 47, 114, 101, 115, 101, 116>>

\* The state documents HPOS_STATE_PATH may name.
StateDocs ==
    {[kind |-> k, key |-> 0] : k \in {"unreadable", "unparsable", "no_key", "bad_key"}}
    \cup {[kind |-> "ok", key |-> k] : k \in Keys}

\* The signature header a client sends for signature bytes sig.
SignatureHeader(enc, sig) ==
    LET e == encode_no_pad(sig) IN
    IF enc = "nopad" THEN e
    ELSE IF enc = "padded" THEN e \o <<61, 61>>
    ELSE IF enc = "short" THEN encode_no_pad(SubSeq(sig, 1, Len(sig) - 1))
    ELSE IF enc = "badchar" THEN [e EXCEPT ![1] = 42]
    ELSE IF enc = "obstext" THEN [e EXCEPT ![Len(e)] = 233]
    ELSE encode_no_pad([sig EXCEPT ![1] = 0])

\* A method with the case of every letter swapped.
FlipCase(m) ==
    [i \in 1..Len(m) |->
        IF m[i] >= 65 /\ m[i] <= 90 THEN m[i] + 32
        ELSE IF m[i] >= 97 /\ m[i] <= 122 THEN m[i] - 32
        ELSE m[i]]

\* A single-byte mutation: the last byte with its lowest bit flipped.
MutateLast(s) ==
    [s EXCEPT ![Len(s)] = IF s[Len(s)] % 2 = 0 THEN s[Len(s)] + 1 ELSE s[Len(s)] - 1]

\* ------------------------------------------------------------------- state

VARIABLES
    pc,             \* main: "start", "key_loaded", "listening", "panicked"
    env,            \* [var: HPOS_STATE_PATH is set, file: the state document]
    HP_PUBLIC_KEY,  \* the lazy static: 0 before it is initialised, else the key
    boot,           \* what read_hp_pubkey returned in main, once it has run
    reqs            \* the requests received, in order of arrival

vars == <<pc, env, HP_PUBLIC_KEY, boot, reqs>>

\* ---------------------------------------------------------------- startup

\* read_hp_pubkey: the key, or the stage whose expect/unwrap panics.
read_hp_pubkey(e) ==
    IF ~e.var THEN [ok |-> FALSE, stage |-> "env", key |-> 0]
    ELSE IF e.file.kind = "unreadable" THEN [ok |-> FALSE, stage |-> "read", key |-> 0]
    ELSE IF e.file.kind = "unparsable" THEN [ok |-> FALSE, stage |-> "parse", key |-> 0]
    ELSE IF e.file.kind \in {"no_key", "bad_key"}
         THEN [ok |-> FALSE, stage |-> "key", key |-> 0]
    ELSE [ok |-> TRUE, stage |-> "none", key |-> e.file.key]

NotRun == [ok |-> FALSE, stage |-> "not_run", key |-> 0]

Init ==
    /\ pc = "start"
    /\ env \in [var : BOOLEAN, file : StateDocs]
    /\ HP_PUBLIC_KEY = 0
    /\ boot = NotRun
    /\ reqs = <<>>

\* main, line 122: the lazy static is forced; a panic in read_hp_pubkey ends
\* the process.
LoadKey ==
    /\ pc = "start"
    /\ boot' = read_hp_pubkey(env)
    /\ IF boot'.ok
       THEN pc' = "key_loaded" /\ HP_PUBLIC_KEY' = boot'.key
       ELSE pc' = "panicked" /\ HP_PUBLIC_KEY' = HP_PUBLIC_KEY
    /\ UNCHANGED <<env, reqs>>

\* a main that binds without forcing the lazy static first
CanBind_unforced == pc \in {"start", "key_loaded"}

\* main reaches Server::bind only after line 122 returned.
CanBind == pc = "key_loaded"

\* main, lines 129-138: bind and serve.
Bind ==
    /\ CanBind
    /\ pc' = "listening"
    /\ UNCHANGED <<env, HP_PUBLIC_KEY, boot, reqs>>

\* Another process rewrites the state document with another key.
RewriteStateFile ==
    /\ pc \in {"key_loaded", "listening"}
    /\ \E k \in Keys :
          /\ env.file # [kind |-> "ok", key |-> k]
          /\ env' = [env EXCEPT !.file = [kind |-> "ok", key |-> k]]
    /\ UNCHANGED <<pc, HP_PUBLIC_KEY, boot, reqs>>

\* --------------------------------------------------------------- requests

RECURSIVE QueryAt(_, _)
\* The position of the first '?' of t from i on, Len(t) + 1 without one.
QueryAt(t, i) ==
    IF i > Len(t) THEN Len(t) + 1
    ELSE IF t[i] = 63 THEN i
    ELSE QueryAt(t, i + 1)

\* Uri::path of an origin-form request target.
path(target) == SubSeq(target, 1, QueryAt(target, 1) - 1)

\* a route that matches every path under "/"
IsVerifyPath_prefix(p) == Len(p) >= 1 /\ p[1] = 47

\* The match of create_response: the arm "/".
IsVerifyPath(p) == p = <<47>>

\* respond_success: the status of the (empty) response.
respond_success(is_verified) == IF is_verified THEN 200 ELSE 401

\* a handler that reads the key from the state document at each request
public_key_reread == read_hp_pubkey(env).key

\* verify_request, line 77: the key is the lazy static.
public_key == HP_PUBLIC_KEY

\* verify_request: "true", "false", or "panic" where an unwrap fails.
verify_request(payload, signature_header) ==
    IF signature_header = None THEN "false"
    ELSE IF ~to_str_ok(signature_header) THEN "panic"
    ELSE LET signature_vec == decode_config(signature_header) IN
         IF ~signature_vec.ok THEN "false"
         ELSE IF ~from_bytes_ok(signature_vec.v) THEN "false"
         ELSE IF verify(public_key, payload, signature_vec.v) THEN "true"
         ELSE "false"

\* The closure of create_response that runs once the body is complete:
\* the status of the response, or 0 where the closure panics.
closure(r) ==
    IF r.ouri = None THEN 0
    ELSE IF ~to_str_ok(r.ouri) THEN 0
    ELSE IF ~from_utf8_ok(r.body) THEN 0
    ELSE LET is_verified ==
                 verify_request(create_payload(r.method, r.ouri, r.body), r.sig)
         IN  IF is_verified = "panic" THEN 0
             ELSE respond_success(is_verified = "true")

\* The signature choices of a client: none, the unpadded base64 of a signature
\* by either key, and the other encodings of a signature by the loaded key.
SigChoices ==
    {<<0, "absent">>} \cup {<<k, "nopad">> : k \in Keys}
    \cup {<<HP_PUBLIC_KEY, e>> : e \in Encodings \ {"nopad"}}

\* The triple a client signs for a request with these facets.
SignedTriple(key, m, u, b) ==
    [key    |-> key,
     method |-> m,
     uri    |-> IF u # None /\ from_utf8_ok(u) THEN u ELSE DefaultUri,
     body   |-> IF from_utf8_ok(b) THEN b ELSE <<>>]

NotSigned == [key |-> 0, method |-> <<>>, uri |-> <<>>, body |-> <<>>]

\* create_response up to the match on the path: a request to the verification
\* path waits for its body, any other is answered at once.
create_response(r) ==
    IF IsVerifyPath(path(r.target))
    THEN [r EXCEPT !.st = "body"]
    ELSE [r EXCEPT !.st = "done", !.status = respond_success(FALSE)]

\* The first request arrives: the client signed the canonical payload of its
\* triple and encoded the signature into the header. Later requests are the
\* copies Resubmit makes.
Receive ==
    /\ pc = "listening"
    /\ reqs = <<>>
    /\ \E m \in FreshMethods, t \in Targets, u \in Uris \cup {None},
          b \in Bodies, c \in SigChoices :
          LET signed  == IF c[2] = "absent" THEN NotSigned
                         ELSE SignedTriple(c[1], m, u, b)
              payload == create_payload(signed.method, signed.uri, signed.body)
          IN  /\ c[2] # "absent" => Len(payload) <= MsgCapacity
              /\ reqs' = Append(reqs, create_response(
                    [method |-> m, target |-> t, ouri |-> u, body |-> b,
                     sig    |-> IF c[2] = "absent" THEN None
                                ELSE SignatureHeader(c[2], Sign(c[1], payload)),
                     enc    |-> c[2], signed |-> signed,
                     st     |-> "new", status |-> 0]))
    /\ UNCHANGED <<pc, env, HP_PUBLIC_KEY, boot>>

\* A request seen before is sent again: unchanged, or with the case of its
\* method swapped, or with one byte of its x-original-uri or of its body
\* changed; the signature header is the one of the request it copies.
Resubmit ==
    /\ pc = "listening"
    /\ Len(reqs) >= 1
    /\ Len(reqs) < MaxReqs
    /\ \E i \in 1..Len(reqs), what \in {"replay", "method", "uri", "body"} :
          LET r == reqs[i] IN
          /\ what = "uri" => r.ouri # None
          /\ what = "body" => Len(r.body) > 0
          /\ reqs' = Append(reqs, create_response(
                [r EXCEPT !.method = IF what = "method" THEN FlipCase(@) ELSE @,
                          !.ouri   = IF what = "uri" THEN MutateLast(@) ELSE @,
                          !.body   = IF what = "body" THEN MutateLast(@) ELSE @,
                          !.st = "new", !.status = 0]))
    /\ UNCHANGED <<pc, env, HP_PUBLIC_KEY, boot>>

\* The body of request i is complete and the closure runs: it responds, or
\* it panics and the request gets no response.
BodyDone ==
    /\ pc = "listening"
    /\ \E i \in 1..Len(reqs) :
          /\ reqs[i].st = "body"
          /\ LET status == closure(reqs[i]) IN
             reqs' = [reqs EXCEPT ![i].st = IF status = 0 THEN "panicked" ELSE "done",
                                  ![i].status = status]
    /\ UNCHANGED <<pc, env, HP_PUBLIC_KEY, boot>>

Next == LoadKey \/ Bind \/ RewriteStateFile \/ Receive \/ Resubmit \/ BodyDone

Spec == Init /\ [][Next]_vars

\* --------------------------------------------------------------- properties

\* Every header of a request is a value the transport delivers, and the
\* signed triple is made of strings.
InputsDeliverable ==
    \A i \in 1..Len(reqs) :
        /\ reqs[i].ouri # None => is_header_value(reqs[i].ouri)
        /\ reqs[i].sig # None => is_header_value(reqs[i].sig)
        /\ from_utf8_ok(reqs[i].signed.uri) /\ from_utf8_ok(reqs[i].signed.body)
        /\ reqs[i].st \in {"body", "done", "panicked"}

Finished(r) == r.st \in {"done", "panicked"}

Denied(r) == r.st = "done" /\ r.status = 401

Accepted(r) == r.st = "done" /\ r.status = 200

AtRoot(r) == path(r.target) = <<47>>

\* The signature header is the unpadded base64 of a signature made with the
\* private half of the loaded key.
SignedByAdmin(r) == r.enc = "nopad" /\ r.signed.key = HP_PUBLIC_KEY

\* The request carries exactly the triple its signature was made over.
CarriesSignedTriple(r) ==
    r.method = r.signed.method /\ r.ouri = r.signed.uri /\ r.body = r.signed.body

SameInputs(r, q) ==
    /\ r.method = q.method
    /\ r.target = q.target
    /\ r.ouri = q.ouri
    /\ r.sig = q.sig
    /\ r.body = q.body

SameOutcome(r, q) == r.st = q.st /\ r.status = q.status

\* C1: a request to "/" that carries the triple its signature was made over,
\* signed with the private half of the loaded key and encoded as unpadded
\* base64, is answered 200.
C1_SignedRequestAccepted ==
    \A i \in 1..Len(reqs) :
        (Finished(reqs[i]) /\ AtRoot(reqs[i]) /\ SignedByAdmin(reqs[i])
            /\ CarriesSignedTriple(reqs[i]))
        => Accepted(reqs[i])

\* The part of C1 the handler keeps: the same, for an x-original-uri of
\* visible ASCII.
AsciiSignedRequestAccepted ==
    \A i \in 1..Len(reqs) :
        (Finished(reqs[i]) /\ AtRoot(reqs[i]) /\ SignedByAdmin(reqs[i])
            /\ CarriesSignedTriple(reqs[i]) /\ to_str_ok(reqs[i].ouri))
        => Accepted(reqs[i])

AsciiSignedRequestSeen ==
    \E i \in 1..Len(reqs) :
        /\ AtRoot(reqs[i]) /\ SignedByAdmin(reqs[i]) /\ CarriesSignedTriple(reqs[i])
        /\ Accepted(reqs[i])

\* C2: a request signed as in the accepting case (over a triple the handler
\* accepts) whose x-original-uri or body differs from the one the signature
\* was made over is answered 401.
C2_TamperedRequestDenied ==
    \A i \in 1..Len(reqs) :
        (Finished(reqs[i]) /\ AtRoot(reqs[i]) /\ SignedByAdmin(reqs[i])
            /\ to_str_ok(reqs[i].signed.uri)
            /\ reqs[i].ouri # None
            /\ (reqs[i].ouri # reqs[i].signed.uri \/ reqs[i].body # reqs[i].signed.body))
        => Denied(reqs[i])

\* The part of C2 the handler keeps: 200 is the answer only to the triple the
\* signature was made over (up to the case of the method), signed with the
\* loaded key.
AcceptedOnlyAsSigned ==
    \A i \in 1..Len(reqs) :
        Accepted(reqs[i])
        => /\ reqs[i].signed.key = HP_PUBLIC_KEY
           /\ to_lowercase(reqs[i].method) = to_lowercase(reqs[i].signed.method)
           /\ reqs[i].ouri = reqs[i].signed.uri
           /\ reqs[i].body = reqs[i].signed.body

\* C3: a request to "/" without x-original-uri is answered 401.
C3_MissingOriginalUriDenied ==
    \A i \in 1..Len(reqs) :
        (Finished(reqs[i]) /\ AtRoot(reqs[i]) /\ reqs[i].ouri = None)
        => Denied(reqs[i])

\* C4: a request to "/" whose body is not UTF-8 is answered 401; stated for
\* the requests whose x-original-uri is present and readable, where the body
\* is the first thing that can fail.
C4_NonUtf8BodyDenied ==
    \A i \in 1..Len(reqs) :
        (Finished(reqs[i]) /\ AtRoot(reqs[i])
            /\ reqs[i].ouri # None /\ to_str_ok(reqs[i].ouri)
            /\ ~from_utf8_ok(reqs[i].body))
        => Denied(reqs[i])

\* C5: a request without x-hpos-admin-signature is answered 401, whatever its
\* path, method, body and x-original-uri.
C5_MissingSignatureDenied ==
    \A i \in 1..Len(reqs) :
        (Finished(reqs[i]) /\ reqs[i].sig = None) => Denied(reqs[i])

\* C6: a request that reaches verify_request with a signature header that is
\* not the unpadded base64 of a verifying signature (obs-text bytes, a byte
\* outside the alphabet, a wrong length, 64 bytes that do not verify) is
\* answered 401.
C6_BadSignatureDenied ==
    \A i \in 1..Len(reqs) :
        (Finished(reqs[i]) /\ AtRoot(reqs[i])
            /\ reqs[i].ouri # None /\ to_str_ok(reqs[i].ouri)
            /\ from_utf8_ok(reqs[i].body)
            /\ reqs[i].enc \in {"short", "badchar", "obstext", "forged"})
        => Denied(reqs[i])

\* C7: a request to a path other than "/" is answered 401 as soon as it is
\* dispatched, whatever its method, headers and body.
C7_OtherPathDenied ==
    \A i \in 1..Len(reqs) : ~AtRoot(reqs[i]) => Denied(reqs[i])

\* A correctly signed request to another path was answered 401.
C7_Witness ==
    \E i \in 1..Len(reqs) :
        /\ ~AtRoot(reqs[i])
        /\ SignedByAdmin(reqs[i]) /\ CarriesSignedTriple(reqs[i])
        /\ to_str_ok(reqs[i].ouri)
        /\ Denied(reqs[i])

\* C8: two requests that differ only in the case of the method have the same
\* canonical payload and, once handled, the same outcome.
C8_MethodCaseIrrelevant ==
    \A i, j \in 1..Len(reqs) :
        (/\ i < j
         /\ to_lowercase(reqs[i].method) = to_lowercase(reqs[j].method)
         /\ reqs[i].target = reqs[j].target
         /\ reqs[i].ouri = reqs[j].ouri
         /\ reqs[i].sig = reqs[j].sig
         /\ reqs[i].body = reqs[j].body)
        => /\ (reqs[i].ouri # None /\ from_utf8_ok(reqs[i].ouri)
                  /\ from_utf8_ok(reqs[i].body))
              => create_payload(reqs[i].method, reqs[i].ouri, reqs[i].body)
                 = create_payload(reqs[j].method, reqs[j].ouri, reqs[j].body)
           /\ (Finished(reqs[i]) /\ Finished(reqs[j]))
              => SameOutcome(reqs[i], reqs[j])

\* Two requests whose methods differ in case only were both accepted.
C8_Witness ==
    \E i, j \in 1..Len(reqs) :
        /\ reqs[i].method # reqs[j].method
        /\ to_lowercase(reqs[i].method) = to_lowercase(reqs[j].method)
        /\ reqs[i].sig = reqs[j].sig
        /\ Accepted(reqs[i]) /\ Accepted(reqs[j])

\* C9: the listener is bound, and a request is received, only after
\* read_hp_pubkey returned a key in main; when a stage of the load fails the
\* process has panicked and serves nothing.
C9_KeyLoadedBeforeServing ==
    /\ (pc = "listening" \/ reqs # <<>>)
       => (boot.ok /\ boot.key \in Keys /\ HP_PUBLIC_KEY = boot.key)
    /\ pc # "start" => boot # NotRun
    /\ (boot # NotRun /\ ~boot.ok) => (pc = "panicked" /\ reqs = <<>>)
    /\ pc = "panicked" => (~boot.ok /\ boot = read_hp_pubkey(env))

\* The load failed at the key field and the process panicked.
C9_Witness == pc = "panicked" /\ boot.stage = "key" /\ env.var

\* C10: the key is the one loaded at startup for as long as the process
\* serves, and two requests with the same method, target, headers and body
\* have the same outcome, whatever was handled between them.
C10_DecisionDependsOnRequestOnly ==
    /\ pc = "listening" => HP_PUBLIC_KEY = boot.key
    /\ \A i, j \in 1..Len(reqs) :
          (i < j /\ Finished(reqs[i]) /\ Finished(reqs[j])
              /\ SameInputs(reqs[i], reqs[j]))
          => SameOutcome(reqs[i], reqs[j])

\* An accepted request was accepted again after the state document had been
\* rewritten with another key.
C10_Witness ==
    /\ env.file.key # HP_PUBLIC_KEY
    /\ \E i, j \in 1..Len(reqs) :
          /\ i < j
          /\ SameInputs(reqs[i], reqs[j])
          /\ Accepted(reqs[i]) /\ Accepted(reqs[j])

====
